---- MODULE Spec2Model ----
(***************************************************************************)
(* Scones-Unlimited ML workflow: the three Lambda handlers                 *)
(*   SerializeImageData.lambda_handler  (Loader)                           *)
(*   Classifier.lambda_handler          (Classifier)                       *)
(*   FilterConfidence.lambda_handler    (Gate)                             *)
(* and the hand-off of one handler's result to the next.                   *)
(*                                                                         *)
(* Representation.                                                         *)
(*   byte string      sequence of 0..255                                   *)
(*   base64 text      sequence of symbol codes: 0..63 the alphabet         *)
(*                    (A=0 .. Z=25, a=26 .. z=51, 0=52 .. 9=61, +=62,      *)
(*                    /=63), PAD the '=' sign, JUNK an ASCII character     *)
(*                    outside the alphabet ('!'), HIGH a non-ASCII         *)
(*                    character (a byte >= 128 in a bytes object)          *)
(*   image_data       [kind, chars]: a Python bytes or str object holding  *)
(*                    the base64 text chars                                *)
(*   score            an integer number of hundredths (0.93 is 93)         *)
(*   JSON text        sequence of tokens [k, s, q]                         *)
(***************************************************************************)
EXTENDS Integers, Sequences, FiniteSets, TLC

\* ------------------------------------------------------------------ bounds
MaxScores == 3
MaxB64Len == 4
NumExecs == 2

\* --------------------------------------------------------------- constants
\* FilterConfidence.py:4, THRESHOLD = .93, in hundredths
THRESHOLD == 93

PAD == 64
JUNK == 65
HIGH == 66

RECURSIVE SeqsUpTo(_, _)
SeqsUpTo(n, S) ==
    IF n = 0 THEN {<<>>}
    ELSE LET shorter == SeqsUpTo(n - 1, S)
         IN  shorter \cup {Append(q, x) : q \in {r \in shorter : Len(r) = n - 1}, x \in S}

\* ------------------------------------------------------------------ errors
NoError == [type |-> "none", msg |-> "none"]

Raised(type, msg) == [type |-> type, msg |-> msg]

\* ------------------------------------------------------------------ base64
\* base64.b64encode: three bytes become four symbols; a final group of one
\* or two bytes is padded with '='.
RECURSIVE b64encode(_)
b64encode(bytes) ==
    IF Len(bytes) = 0 THEN <<>>
    ELSE IF Len(bytes) = 1 THEN
        <<bytes[1] \div 4, (bytes[1] % 4) * 16, PAD, PAD>>
    ELSE IF Len(bytes) = 2 THEN
        <<bytes[1] \div 4, (bytes[1] % 4) * 16 + bytes[2] \div 16,
          (bytes[2] % 16) * 4, PAD>>
    ELSE
        <<bytes[1] \div 4, (bytes[1] % 4) * 16 + bytes[2] \div 16,
          (bytes[2] % 16) * 4 + bytes[3] \div 64, bytes[3] % 64>>
        \o b64encode(SubSeq(bytes, 4, Len(bytes)))

\* binascii.a2b_base64 in its default, non-strict mode, as base64.b64decode
\* calls it (validate=False): characters outside the alphabet are skipped, a
\* pad that completes a quad ends the parse, and only a quad left incomplete
\* at the end of the input is an error. (The message of the first error goes
\* on with the number of data characters; the model keeps its fixed part.)
RECURSIVE a2b_base64(_, _, _, _, _, _)
a2b_base64(s, i, quad_pos, leftchar, pads, out) ==
    IF i > Len(s) THEN
        IF quad_pos = 0 THEN [ok |-> TRUE, bytes |-> out, error |-> NoError]
        ELSE IF quad_pos = 1 THEN
            [ok |-> FALSE, bytes |-> <<>>,
             error |-> Raised("binascii.Error", "Invalid base64-encoded string")]
        ELSE
            [ok |-> FALSE, bytes |-> <<>>,
             error |-> Raised("binascii.Error", "Incorrect padding")]
    ELSE IF s[i] = PAD THEN
        IF quad_pos >= 2 /\ quad_pos + pads + 1 >= 4
        THEN [ok |-> TRUE, bytes |-> out, error |-> NoError]
        ELSE a2b_base64(s, i + 1, quad_pos, leftchar,
                        IF quad_pos >= 2 THEN pads + 1 ELSE pads, out)
    ELSE IF s[i] > 63 THEN
        a2b_base64(s, i + 1, quad_pos, leftchar, pads, out)
    ELSE IF quad_pos = 0 THEN
        a2b_base64(s, i + 1, 1, s[i], 0, out)
    ELSE IF quad_pos = 1 THEN
        a2b_base64(s, i + 1, 2, s[i] % 16, 0,
                   Append(out, leftchar * 4 + s[i] \div 16))
    ELSE IF quad_pos = 2 THEN
        a2b_base64(s, i + 1, 3, s[i] % 4, 0,
                   Append(out, leftchar * 16 + s[i] \div 4))
    ELSE
        a2b_base64(s, i + 1, 0, 0, 0, Append(out, leftchar * 64 + s[i]))

\* base64.b64decode(s): a str is first encoded as ASCII, which raises
\* ValueError on a non-ASCII character; a bytes object is taken as it is.
b64decode(image_data) ==
    IF image_data.kind = "str" /\ \E i \in 1..Len(image_data.chars) : image_data.chars[i] = HIGH
    THEN [ok |-> FALSE, bytes |-> <<>>,
          error |-> Raised("ValueError", "string argument should contain only ASCII characters")]
    ELSE a2b_base64(image_data.chars, 1, 0, 0, 0, <<>>)

\* -------------------------------------------------------------------- json
Tok(k, s, q) == [k |-> k, s |-> s, q |-> q]

Punct(k) == Tok(k, "", <<>>)

RECURSIVE NumToks(_)
NumToks(items) ==
    IF Len(items) = 0 THEN <<>>
    ELSE <<Tok("num", "", <<Head(items)>>)>> \o NumToks(Tail(items))

\* The JSON text of a Python value that is a list of numbers or one number.
DumpsValue(v) ==
    IF v.t = "list" THEN <<Punct("[")>> \o NumToks(v.items) \o <<Punct("]")>>
    ELSE NumToks(v.items)

\* json.loads on a text of the tokens "[", "]" and numbers (any other token
\* begins no value). Between two values that follow one another in an array
\* the text has its comma; a text never has a comma elsewhere. The decoder
\* scans one value (scan_once), an array by its items (JSONArray), and raises
\* JSONDecodeError with the message of the place it stopped at: "Expecting
\* value", "Expecting ',' delimiter", or "Extra data" when text follows the
\* value. (The model keeps the message, not the position that follows it.)
\* A scan's result: next, the position after the value; num, the value is a
\* number; flat, the value is a list of numbers only.
ScanOk(next, num, flat) ==
    [ok |-> TRUE, next |-> next, num |-> num, flat |-> flat, msg |-> "none"]

ScanFail(msg) == [ok |-> FALSE, next |-> 0, num |-> FALSE, flat |-> FALSE, msg |-> msg]

RECURSIVE scan_once(_, _)
RECURSIVE JSONArray(_, _, _)
scan_once(text, i) ==
    IF i > Len(text) THEN ScanFail("Expecting value")
    ELSE IF text[i].k = "num" THEN ScanOk(i + 1, TRUE, FALSE)
    ELSE IF text[i].k = "[" THEN
        IF i + 1 <= Len(text) /\ text[i + 1].k = "]"
        THEN ScanOk(i + 2, FALSE, TRUE)
        ELSE JSONArray(text, i + 1, TRUE)
    ELSE ScanFail("Expecting value")

\* The items of an array from position i on; flat: every item so far is a
\* number.
JSONArray(text, i, flat) ==
    LET v == scan_once(text, i)
        onlyNumbers == flat /\ v.num
    IN  IF ~v.ok THEN v
        ELSE IF v.next > Len(text) THEN ScanFail("Expecting ',' delimiter")
        ELSE IF text[v.next].k = "]" THEN ScanOk(v.next + 1, FALSE, onlyNumbers)
        ELSE IF text[v.next].k \in {"num", "["} THEN JSONArray(text, v.next, onlyNumbers)
        ELSE ScanFail("Expecting ',' delimiter")

\* The value is a number, a list of numbers, or a list that holds a list
\* ("nested", whose items the model does not keep).
loads(text) ==
    LET n == Len(text)
        v == scan_once(text, 1)
        items(a, b) == [i \in 1..(b - a + 1) |-> text[a + i - 1].q[1]]
        failed(msg) == [ok |-> FALSE, value |-> [t |-> "list", items |-> <<>>],
                        error |-> Raised("JSONDecodeError", msg)]
    IN  IF ~v.ok THEN failed(v.msg)
        ELSE IF v.next # n + 1 THEN failed("Extra data")
        ELSE IF v.num
        THEN [ok |-> TRUE, value |-> [t |-> "num", items |-> items(1, 1)], error |-> NoError]
        ELSE IF v.flat
        THEN [ok |-> TRUE, value |-> [t |-> "list", items |-> items(2, n - 1)], error |-> NoError]
        ELSE [ok |-> TRUE, value |-> [t |-> "nested", items |-> <<>>], error |-> NoError]

\* json.dumps(event) for an event {"statusCode": .., "body": {..}}: the text
\* of the whole event; a bytes object anywhere in it raises TypeError.
dumps(event) ==
    IF event.body.image_data.kind = "bytes"
    THEN [ok |-> FALSE, text |-> <<>>,
          error |-> Raised("TypeError", "Object of type bytes is not JSON serializable")]
    ELSE [ok |-> TRUE,
          text |-> <<Punct("{"), Tok("key", "statusCode", <<>>), Tok("num", "", <<event.statusCode>>),
                     Tok("key", "body", <<>>), Punct("{"),
                     Tok("key", "image_data", <<>>), Tok("str", "", event.body.image_data.chars),
                     Tok("key", "s3_bucket", <<>>), Tok("str", event.body.s3_bucket, <<>>),
                     Tok("key", "s3_key", <<>>), Tok("str", event.body.s3_key, <<>>),
                     Tok("key", "inferences", <<>>)>>
                   \o DumpsValue(event.body.inferences)
                   \o <<Punct("}"), Punct("}")>>,
          error |-> NoError]

\* -------------------------------------------------------------- the events
Envelope(image_data, bucket, key, inferences) ==
    [image_data |-> image_data, s3_bucket |-> bucket, s3_key |-> key, inferences |-> inferences]

Response(body) == [statusCode |-> 200, body |-> body]

NoEnvelope == Envelope([kind |-> "str", chars |-> <<>>], "", "", [t |-> "list", items |-> <<>>])

\* -------------------------------------------------------------------- Gate
\* max(inferences) > THRESHOLD, as far as the maximum: ValueError on an empty
\* list, TypeError on a number (not iterable) and on a list that holds a list
\* (which '>' does not compare with a number; the message goes on with the
\* two types).
RECURSIVE SeqMax(_)
SeqMax(items) ==
    IF Len(items) = 1 THEN items[1]
    ELSE LET m == SeqMax(Tail(items)) IN IF m > items[1] THEN m ELSE items[1]

\* max(inferences, default=0): an empty list has maximum 0.
PyMax_default(inferences) ==
    IF inferences.t = "nested"
    THEN [ok |-> FALSE, value |-> 0,
          error |-> Raised("TypeError", "'>' not supported between instances")]
    ELSE IF inferences.t # "list"
    THEN [ok |-> FALSE, value |-> 0, error |-> Raised("TypeError", "'float' object is not iterable")]
    ELSE IF Len(inferences.items) = 0
    THEN [ok |-> TRUE, value |-> 0, error |-> NoError]
    ELSE [ok |-> TRUE, value |-> SeqMax(inferences.items), error |-> NoError]

PyMax(inferences) ==
    IF inferences.t = "nested"
    THEN [ok |-> FALSE, value |-> 0,
          error |-> Raised("TypeError", "'>' not supported between instances")]
    ELSE IF inferences.t # "list"
    THEN [ok |-> FALSE, value |-> 0, error |-> Raised("TypeError", "'float' object is not iterable")]
    ELSE IF Len(inferences.items) = 0
    THEN [ok |-> FALSE, value |-> 0, error |-> Raised("ValueError", "max() arg is an empty sequence")]
    ELSE [ok |-> TRUE, value |-> SeqMax(inferences.items), error |-> NoError]

\* The raise of FilterConfidence.py line 40: a str is raised, which Python
\* turns into this TypeError.
ThresholdRaise == Raised("TypeError", "exceptions must derive from BaseException")

\* The body of a result: a str holding a text, a dict holding an Envelope, or
\* nothing.
PyStr(text) == [form |-> "str", text |-> text, obj |-> NoEnvelope]

PyDict(obj) == [form |-> "dict", text |-> <<>>, obj |-> obj]

PyNone == [form |-> "none", text |-> <<>>, obj |-> NoEnvelope]

GateOk(text) == [ok |-> TRUE, statusCode |-> 200, body |-> PyStr(text), error |-> NoError]

GateRaise(error) == [ok |-> FALSE, statusCode |-> 0, body |-> PyNone, error |-> error]

\* FilterConfidence.lambda_handler(event, context)
FilterConfidence_lambda_handler(event) ==
    LET inferences == event.body.inferences
        m == PyMax(inferences)
    IN  IF ~m.ok THEN GateRaise(m.error)
        ELSE IF ~(m.value > THRESHOLD)
        THEN GateRaise(ThresholdRaise)
        ELSE IF ~dumps(event).ok THEN GateRaise(dumps(event).error)
        ELSE GateOk(dumps(event).text)

\* -------------------------------------------------------------- Classifier
\* What runtime.invoke_endpoint does when called: it raises, or it returns a
\* response whose Body holds a text.
EndpointRaises == [ok |-> FALSE, text |-> <<>>]

EndpointReturns(text) == [ok |-> TRUE, text |-> text]

ClsOk(body, image) ==
    [ok |-> TRUE, statusCode |-> 200, body |-> body, error |-> NoError,
     invoked |-> 1, sent |-> image]

ClsRaise(error, invoked, image) ==
    [ok |-> FALSE, statusCode |-> 0, body |-> NoEnvelope, error |-> error,
     invoked |-> invoked, sent |-> image]

\* A handler that returns event["body"]["inferences"], the scores that came
\* in, instead of event["inferences"], the scores it has just parsed.
BodyInferences(event, parsed) == event.body.inferences

\* The inferences the handler puts in its result: event["inferences"], which
\* it has just set to the parsed response.
ParsedInferences(event, parsed) == parsed.value

\* Classifier.lambda_handler(event, context), with endpoint the behaviour of
\* the SageMaker endpoint in this invocation.
Classifier_lambda_handler(event, endpoint) ==
    LET image == b64decode(event.body.image_data)
        parsed == loads(endpoint.text)
    IN  IF ~image.ok THEN ClsRaise(image.error, 0, <<>>)
        ELSE IF ~endpoint.ok
        THEN ClsRaise(Raised("ClientError", "invoke_endpoint failed"), 1, image.bytes)
        ELSE IF ~parsed.ok THEN ClsRaise(parsed.error, 1, image.bytes)
        ELSE ClsOk(Envelope(event.body.image_data, event.body.s3_bucket,
                            event.body.s3_key, ParsedInferences(event, parsed)),
                   image.bytes)

\* ------------------------------------------------------------------ Loader
\* The objects in storage: bucket "imgs" holds a.png ("Man") and b.png ("M");
\* every other key is missing.
Buckets == {"imgs"}

Keys == {"a.png", "b.png", "missing.png"}

ObjectExists(bucket, key) == bucket = "imgs" /\ key \in {"a.png", "b.png"}

ObjectBytes(bucket, key) == IF key = "a.png" THEN <<77, 97, 110>> ELSE <<77>>

\* What can go wrong with a fetch of an existing object.
Faults == {"none", "AccessDenied", "IOError"}

\* The storage service asked for an object: its bytes, or the way it fails.
s3_get(bucket, key, fault) ==
    IF ~ObjectExists(bucket, key) THEN [ok |-> FALSE, data |-> <<>>, kind |-> "NotFound"]
    ELSE IF fault # "none" THEN [ok |-> FALSE, data |-> <<>>, kind |-> fault]
    ELSE [ok |-> TRUE, data |-> ObjectBytes(bucket, key), kind |-> "none"]

\* boto3 ... Bucket(bucket).download_file(key, "/tmp/image.png"): it raises,
\* leaving the file as it was, or it puts the object's bytes in the file.
download_file(bucket, key, fault, file) ==
    LET got == s3_get(bucket, key, fault)
    IN  IF got.ok
        THEN [ok |-> TRUE, file |-> [exists |-> TRUE, data |-> got.data], error |-> NoError]
        ELSE [ok |-> FALSE, file |-> file, error |-> Raised("ClientError", got.kind)]

\* Lines 39-53 of SerializeImageData.lambda_handler: read "/tmp/image.png",
\* b64encode what it holds, return the response. b64encode returns bytes.
SerializeImageData_respond(event, file) ==
    Response(Envelope([kind |-> "bytes", chars |-> b64encode(file.data)],
                      event.s3_bucket, event.s3_key, [t |-> "list", items |-> <<>>]))

\* --------------------------------------------------------------- the state
VARIABLES
    tmpfile,     \* "/tmp/image.png": [exists, data]
    pc,          \* pc[e]: where workflow execution e is
    input,       \* input[e]: the event the execution was started with
    out,         \* out[e]: the result of the last stage that succeeded
    err,         \* err[e]: the error of the stage that failed
    failedAt,    \* failedAt[e]: the stage that failed, or "none"
    fetchCalls,  \* fetchCalls[e]: download_file calls of the execution
    inferCalls,  \* inferCalls[e]: invoke_endpoint calls of the execution
    fetched,     \* fetched[e]: what storage answered the execution's fetch
    passed,      \* passed[e]: the body the Gate returned to the execution
    transport,   \* how a result reaches the next stage: "direct" or "json"
    gateEvent,   \* the event of a direct Gate invocation
    gateResult,  \* its result; called = FALSE before the invocation
    clsEvent,    \* the event of a direct Classifier invocation
    clsEndpoint, \* the endpoint's behaviour in that invocation
    clsResult    \* its result; called = FALSE before the invocation

vars == <<tmpfile, pc, input, out, err, failedAt, fetchCalls, inferCalls,
          fetched, passed, transport,
          gateEvent, gateResult, clsEvent, clsEndpoint, clsResult>>

pipelineVars ==
    <<tmpfile, pc, input, out, err, failedAt, fetchCalls, inferCalls, fetched, passed, transport>>

gateVars == <<gateEvent, gateResult>>

clsVars == <<clsEvent, clsEndpoint, clsResult>>

Execs == 1..NumExecs

\* ---------------------------------------------------------- input domains
ScoreValues == {20, 93, 95}

ScoreLists == SeqsUpTo(MaxScores, ScoreValues)

InferenceValues ==
    {[t |-> "list", items |-> l] : l \in ScoreLists} \cup {[t |-> "num", items |-> <<50>>]}

\* 'T' = 19, 'Q' = 16: "TQ==" is the base64 text of "M".
ImageTexts ==
    SeqsUpTo(MaxB64Len, {19, 16, PAD, JUNK})
    \cup {<<HIGH>>, <<19, 16, HIGH, PAD, PAD>>, <<19, HIGH>>}

GateImages == {[kind |-> k, chars |-> c] : k \in {"bytes", "str"}, c \in {<<>>, <<19, 16, PAD, PAD>>}}

GateEvents ==
    {Response(Envelope(img, "imgs", key, inf)) :
        img \in GateImages, key \in {"a.png", "b.png"}, inf \in InferenceValues}

ClsImages == {[kind |-> k, chars |-> c] : k \in {"bytes", "str"}, c \in ImageTexts}

ClsEvents == {Response(Envelope(img, "imgs", "a.png", [t |-> "list", items |-> <<>>])) : img \in ClsImages}

\* The endpoint raises, returns the JSON text of a list of scores or of one
\* number, or returns a text cut short.
Endpoints ==
    {EndpointRaises}
    \cup {EndpointReturns(DumpsValue(v)) : v \in InferenceValues}
    \cup {EndpointReturns(<<Punct("["), Tok("num", "", <<20>>)>>)}

PipelineEndpoints ==
    {EndpointRaises,
     EndpointReturns(DumpsValue([t |-> "list", items |-> <<>>])),
     EndpointReturns(DumpsValue([t |-> "list", items |-> <<20, 95, 20>>])),
     EndpointReturns(DumpsValue([t |-> "list", items |-> <<20, 93, 20>>]))}

LoaderInputs == {[s3_bucket |-> b, s3_key |-> k] : b \in Buckets, k \in Keys}

NotCalledGate == [called |-> FALSE, result |-> GateRaise(NoError)]

NotCalledCls == [called |-> FALSE, result |-> ClsRaise(NoError, 0, <<>>)]

NoOutput == Response(NoEnvelope)

\* -------------------------------------------------------------------- Init
\* The workflow executions, each about to run the Loader on its input.
PipelineStart ==
    /\ tmpfile = [exists |-> FALSE, data |-> <<>>]
    /\ pc = [e \in Execs |-> "START"]
    /\ out = [e \in Execs |-> NoOutput]
    /\ err = [e \in Execs |-> NoError]
    /\ failedAt = [e \in Execs |-> "none"]
    /\ fetchCalls = [e \in Execs |-> 0]
    /\ inferCalls = [e \in Execs |-> 0]
    /\ fetched = [e \in Execs |-> "none"]
    /\ passed = [e \in Execs |-> PyNone]

NoGateCall ==
    /\ gateEvent = Response(NoEnvelope)
    /\ gateResult = NotCalledGate

NoClsCall ==
    /\ clsEvent = Response(NoEnvelope)
    /\ clsEndpoint = EndpointRaises
    /\ clsResult = NotCalledCls

Init ==
    /\ PipelineStart
    /\ input \in [Execs -> LoaderInputs]
    /\ transport \in {"direct", "json"}
    /\ NoGateCall
    /\ NoClsCall

InitGate ==
    /\ PipelineStart
    /\ input = [e \in Execs |-> [s3_bucket |-> "imgs", s3_key |-> "a.png"]]
    /\ transport = "direct"
    /\ gateEvent \in GateEvents
    /\ gateResult = NotCalledGate
    /\ NoClsCall

InitClassifier ==
    /\ PipelineStart
    /\ input = [e \in Execs |-> [s3_bucket |-> "imgs", s3_key |-> "a.png"]]
    /\ transport = "direct"
    /\ NoGateCall
    /\ clsEvent \in ClsEvents
    /\ clsEndpoint \in Endpoints
    /\ clsResult = NotCalledCls

\* ------------------------------------------------- direct stage invocations
\* The Gate invoked on gateEvent.
InvokeGate ==
    /\ ~gateResult.called
    /\ gateResult' = [called |-> TRUE, result |-> FilterConfidence_lambda_handler(gateEvent)]
    /\ UNCHANGED <<gateEvent, clsVars, pipelineVars>>

\* The Classifier invoked on clsEvent, the endpoint behaving as clsEndpoint.
InvokeClassifier ==
    /\ ~clsResult.called
    /\ clsResult' = [called |-> TRUE, result |-> Classifier_lambda_handler(clsEvent, clsEndpoint)]
    /\ UNCHANGED <<clsEvent, clsEndpoint, gateVars, pipelineVars>>

\* ------------------------------------------------------------ the workflow
\* The result of one stage as the next stage receives it. "direct": the next
\* handler is called with the object the previous one returned. "json": the
\* result travels as JSON text, in which a bytes object arrives as a str.
Handoff(result, how) ==
    IF how = "json"
    THEN [result EXCEPT !.body.image_data.kind = "str"]
    ELSE result

\* Where an execution stands after a stage ended.
AfterStage(stage, ok, error) ==
    IF ok THEN
        IF stage = "Loader" THEN "Loaded"
        ELSE IF stage = "Classifier" THEN "Classified"
        ELSE "Passed"
    ELSE IF stage = "Gate" THEN
        IF error = ThresholdRaise THEN "Rejected" ELSE "GateError"
    ELSE "StageError"

Fail(e, stage, error) ==
    /\ pc' = [pc EXCEPT ![e] = AfterStage(stage, FALSE, error)]
    /\ err' = [err EXCEPT ![e] = error]
    /\ failedAt' = [failedAt EXCEPT ![e] = stage]

\* A download wrapped in try/except that ignores the failure: the handler
\* goes on to read whatever the file holds.
LoaderDownload_swallow(e, fault) ==
    LET got == download_file(input[e].s3_bucket, input[e].s3_key, fault, tmpfile)
    IN  /\ pc[e] = "START"
        /\ fetchCalls' = [fetchCalls EXCEPT ![e] = @ + 1]
        /\ fetched' = [fetched EXCEPT ![e] =
                          IF s3_get(input[e].s3_bucket, input[e].s3_key, fault).ok
                          THEN "ok" ELSE s3_get(input[e].s3_bucket, input[e].s3_key, fault).kind]
        /\ tmpfile' = got.file
        /\ pc' = [pc EXCEPT ![e] = "Downloaded"]
        /\ UNCHANGED <<err, failedAt>>
        /\ UNCHANGED <<input, out, inferCalls, passed, transport, gateVars, clsVars>>

\* SerializeImageData.lambda_handler, lines 32-37: the download. A raise ends
\* the handler; otherwise the handler goes on to read the file.
LoaderDownload(e, fault) ==
    LET got == download_file(input[e].s3_bucket, input[e].s3_key, fault, tmpfile)
    IN  /\ pc[e] = "START"
        /\ fetchCalls' = [fetchCalls EXCEPT ![e] = @ + 1]
        /\ fetched' = [fetched EXCEPT ![e] =
                          IF s3_get(input[e].s3_bucket, input[e].s3_key, fault).ok
                          THEN "ok" ELSE s3_get(input[e].s3_bucket, input[e].s3_key, fault).kind]
        /\ tmpfile' = got.file
        /\ IF got.ok
           THEN /\ pc' = [pc EXCEPT ![e] = "Downloaded"]
                /\ UNCHANGED <<err, failedAt>>
           ELSE Fail(e, "Loader", got.error)
        /\ UNCHANGED <<input, out, inferCalls, passed, transport, gateVars, clsVars>>

\* SerializeImageData.lambda_handler, lines 39-53: open the file, encode it,
\* return. open raises when the file is not there.
LoaderRespond(e) ==
    /\ pc[e] = "Downloaded"
    /\ IF tmpfile.exists
       THEN /\ out' = [out EXCEPT ![e] = SerializeImageData_respond(input[e], tmpfile)]
            /\ pc' = [pc EXCEPT ![e] = AfterStage("Loader", TRUE, NoError)]
            /\ UNCHANGED <<err, failedAt>>
       ELSE /\ Fail(e, "Loader", Raised("FileNotFoundError", "/tmp/image.png"))
            /\ UNCHANGED out
    /\ UNCHANGED <<tmpfile, input, fetchCalls, inferCalls, fetched, passed, transport,
                   gateVars, clsVars>>

\* The Classifier run on the Loader's result.
RunClassifier(e, endpoint) ==
    LET r == Classifier_lambda_handler(Handoff(out[e], transport), endpoint)
    IN  /\ pc[e] = "Loaded"
        /\ inferCalls' = [inferCalls EXCEPT ![e] = @ + r.invoked]
        /\ IF r.ok
           THEN /\ out' = [out EXCEPT ![e] = Response(r.body)]
                /\ pc' = [pc EXCEPT ![e] = AfterStage("Classifier", TRUE, NoError)]
                /\ UNCHANGED <<err, failedAt>>
           ELSE /\ Fail(e, "Classifier", r.error)
                /\ UNCHANGED out
        /\ UNCHANGED <<tmpfile, input, fetchCalls, fetched, passed, transport, gateVars, clsVars>>

\* The Gate run on the Classifier's result.
RunGate(e) ==
    LET r == FilterConfidence_lambda_handler(Handoff(out[e], transport))
    IN  /\ pc[e] = "Classified"
        /\ IF r.ok
           THEN /\ passed' = [passed EXCEPT ![e] = r.body]
                /\ pc' = [pc EXCEPT ![e] = AfterStage("Gate", TRUE, NoError)]
                /\ UNCHANGED <<err, failedAt>>
           ELSE /\ Fail(e, "Gate", r.error)
                /\ UNCHANGED passed
        /\ UNCHANGED <<tmpfile, input, out, fetchCalls, inferCalls, fetched, transport,
                       gateVars, clsVars>>

Next ==
    \/ \E e \in Execs, fault \in Faults : LoaderDownload(e, fault)
    \/ \E e \in Execs : LoaderRespond(e)
    \/ \E e \in Execs, endpoint \in PipelineEndpoints : RunClassifier(e, endpoint)
    \/ \E e \in Execs : RunGate(e)

Spec == Init /\ [][Next]_vars

NextGate == InvokeGate

SpecGate == InitGate /\ [][NextGate]_vars

NextClassifier == InvokeClassifier

SpecClassifier == InitClassifier /\ [][NextClassifier]_vars

\* ---------------------------------------------------------------- helpers
NonEmptyList(v) == v.t = "list" /\ Len(v.items) > 0

ExceedsThreshold(v) == \E i \in 1..Len(v.items) : v.items[i] > THRESHOLD

\* The names under which a failure counts as the threshold condition.
ThresholdNames == {"ThresholdNotMet", "THRESHOLD_CONFIDENCE_NOT_MET"}

\* ------------------------------------------------------------------ claims
\* C1: for every Envelope with non-empty confidence_scores the Gate succeeds
\* if and only if the maximum score is strictly above the threshold, and
\* otherwise it fails with the named condition ThresholdNotMet and returns no
\* result. (Envelopes carrying their image as text, as the data contract has
\* it.)
C1_GateIffNamedFailure ==
    (/\ gateResult.called
     /\ gateEvent.body.image_data.kind = "str"
     /\ NonEmptyList(gateEvent.body.inferences))
    => /\ gateResult.result.ok <=> ExceedsThreshold(gateEvent.body.inferences)
       /\ ~ExceedsThreshold(gateEvent.body.inferences)
          => /\ ~gateResult.result.ok
             /\ gateResult.result.body = PyNone
             /\ \/ gateResult.result.error.type \in ThresholdNames
                \/ gateResult.result.error.msg \in ThresholdNames

\* C2: whenever the Gate succeeds its result has status 200 and a body that
\* is the input Envelope itself, with the same image_data, s3_bucket, s3_key
\* and inferences, nothing added, removed or re-encoded.
C2_BodyIsEnvelope ==
    (gateResult.called /\ gateResult.result.ok)
    => /\ gateResult.result.statusCode = 200
       /\ gateResult.result.body = PyDict(gateEvent.body)

\* C9: on an empty confidence_scores the Gate fails, returning no result,
\* with an error that differs from the error of every non-empty list whose
\* maximum does not exceed the threshold, each of which fails too.
C9_EmptyScoresFailDistinctly ==
    (gateResult.called /\ gateEvent.body.inferences = [t |-> "list", items |-> <<>>])
    => /\ ~gateResult.result.ok
       /\ gateResult.result.body = PyNone
       /\ gateResult.result.error # NoError
       /\ \A ev \in GateEvents :
            (NonEmptyList(ev.body.inferences) /\ ~ExceedsThreshold(ev.body.inferences))
            => /\ ~FilterConfidence_lambda_handler(ev).ok
               /\ FilterConfidence_lambda_handler(ev).error # gateResult.result.error

C9_Witness ==
    /\ gateResult.called
    /\ gateEvent.body.inferences = [t |-> "list", items |-> <<>>]
    /\ gateResult.result.error.type = "ValueError"

\* A base64 text in the sense of RFC 4648: whole quads of alphabet
\* characters, the last of which may end in one or two pads.
ValidBase64(chars) ==
    LET n == Len(chars)
    IN  /\ n % 4 = 0
        /\ \A i \in 1..n : chars[i] <= PAD
        /\ \A i \in 1..n : chars[i] = PAD => i >= n - 1
        /\ (n > 0 /\ chars[n - 1] = PAD) => chars[n] = PAD

\* C3: whenever the Classifier succeeds, its output Envelope has the
\* image_data, s3_bucket and s3_key of its input, and inferences holds
\* exactly the scores the endpoint returned, in the same order.
C3_ClassifierEchoesAndAttaches ==
    (clsResult.called /\ clsResult.result.ok)
    => /\ clsResult.result.statusCode = 200
       /\ clsResult.result.body.image_data = clsEvent.body.image_data
       /\ clsResult.result.body.s3_bucket = clsEvent.body.s3_bucket
       /\ clsResult.result.body.s3_key = clsEvent.body.s3_key
       /\ clsEndpoint.text = DumpsValue(clsResult.result.body.inferences)

C3_Witness ==
    /\ clsResult.called
    /\ clsResult.result.ok
    /\ clsEvent.body.image_data.chars = <<19, 16, PAD, PAD>>
    /\ clsResult.result.sent = <<77>>
    /\ clsResult.result.body.inferences = [t |-> "list", items |-> <<20, 95, 93>>]

\* C4: given an image_data that is not valid base64, the Classifier fails
\* and the endpoint is not invoked.
C4_InvalidBase64NeverInvokes ==
    (clsResult.called /\ ~ValidBase64(clsEvent.body.image_data.chars))
    => /\ ~clsResult.result.ok
       /\ clsResult.result.invoked = 0

\* C5: the Envelope's inferences is empty before the Classifier has run and
\* a non-empty list after any successful Classifier invocation.
C5_ScoresEmptyThenNonEmpty ==
    \A e \in Execs :
        /\ pc[e] = "Loaded" => out[e].body.inferences = [t |-> "list", items |-> <<>>]
        /\ pc[e] = "Classified" => NonEmptyList(out[e].body.inferences)

\* C6: with Loader invocations interleaved in any order, each returns the
\* base64 encoding of its own object's bytes.
C6_LoaderEncodesOwnObject ==
    \A e \in Execs :
        pc[e] = "Loaded"
        => out[e].body.image_data.chars
           = b64encode(ObjectBytes(input[e].s3_bucket, input[e].s3_key))

\* C7: a successful Loader invocation returns an Envelope whose image_data
\* decodes to exactly the bytes stored at the object, and whose s3_bucket
\* and s3_key are the ones it was given.
C7_LoaderRoundTrip ==
    \A e \in Execs :
        pc[e] = "Loaded"
        => /\ b64decode(out[e].body.image_data).ok
           /\ b64decode(out[e].body.image_data).bytes
              = ObjectBytes(input[e].s3_bucket, input[e].s3_key)
           /\ out[e].body.s3_bucket = input[e].s3_bucket
           /\ out[e].body.s3_key = input[e].s3_key

\* C8: an execution moves START, Loaded, Classified and ends Passed only if
\* the scores have a maximum strictly above the threshold, Rejected
\* otherwise, or StageError if the Loader or the Classifier failed; no stage
\* runs after a failure.
C8_TerminalStates ==
    \A e \in Execs :
        /\ pc[e] \in {"START", "Downloaded", "Loaded", "Classified",
                      "Passed", "Rejected", "StageError"}
        /\ pc[e] = "Passed" => ExceedsThreshold(out[e].body.inferences)
        /\ pc[e] = "Rejected" => ~ExceedsThreshold(out[e].body.inferences)
        /\ pc[e] = "StageError" <=> failedAt[e] \in {"Loader", "Classifier"}
        /\ failedAt[e] = "Loader" => inferCalls[e] = 0

\* C10: when the storage fetch fails, the Loader fails with that error, no
\* Envelope is produced (the execution holds no Loader output and goes no
\* further), and storage is called exactly once by each Loader invocation.
C10_FailedFetchProducesNothing ==
    \A e \in Execs :
        /\ fetchCalls[e] = (IF pc[e] = "START" THEN 0 ELSE 1)
        /\ fetched[e] \notin {"none", "ok"}
           => /\ pc[e] = "StageError"
              /\ failedAt[e] = "Loader"
              /\ err[e].msg = fetched[e]
              /\ out[e] = NoOutput
              /\ inferCalls[e] = 0

C10_Witness ==
    \E e \in Execs :
        /\ fetched[e] = "NotFound"
        /\ pc[e] = "StageError"
        /\ tmpfile.exists

====
